---- MODULE Spec2Model ----
(***************************************************************************)
(* A model of the cleaning-and-labeling pipeline of trademind-dataset:     *)
(*   utils/data_cleaning.py      clean_trades, clean_news,                 *)
(*                               clean_sentiment_labels                    *)
(*   utils/labeling_functions.py label_sentiment_keywords,                 *)
(*                               apply_sentiment_to_news                   *)
(*                                                                         *)
(* A text is a sequence of one-character strings, so that prefix tests,    *)
(* trimming, lower-casing, splitting and substring search are computed     *)
(* character by character.  A cell value is a record [t, v, l]: t is the   *)
(* Python type of the cell, v its characters (a str; the repr of a float   *)
(* or of a Timestamp) and l its elements (a list of str).  A table is a    *)
(* record [cols, dtype, rows]; a row keeps its index label in key.  Table  *)
(* objects live in heap, so that a returned table can be the very object   *)
(* that was passed in.                                                     *)
(*                                                                         *)
(* The pandas calls are modelled as pandas 1.x/2.x computes them:          *)
(* astype(str) renders a missing value as "nan", the .str accessor maps    *)
(* a non-string element to NaN and refuses a column holding no strings.    *)
(* Numbers are modelled by their float value (int64 and float64 columns    *)
(* of the same values are identified); the timestamp parser accepts the    *)
(* ISO date form YYYY-MM-DD.                                               *)
(***************************************************************************)
EXTENDS Integers, Sequences, FiniteSets, TLC

VARIABLES heap, cur, calls, lastOp, prevOp, argId, retId, before, raised,
          reported, textCol, lblIn, lblOut

vars == <<heap, cur, calls, lastOp, prevOp, argId, retId, before, raised,
          reported, textCol, lblIn, lblOut>>

(***************************************************************************)
(* Bounds of the model.                                                    *)
(***************************************************************************)
\* rows of a raw table
MaxRows == 2
\* calls the caller chains, each on the table the previous call returned
MaxCalls == 2
\* fragments a text handed to label_sentiment_keywords is made of
MaxFrags == 3

(***************************************************************************)
(* Cell values.                                                            *)
(***************************************************************************)
Str(s) == [t |-> "str", v |-> s, l |-> <<>>]
Num(r) == [t |-> "num", v |-> r, l |-> <<>>]
Ts(r) == [t |-> "ts", v |-> r, l |-> <<>>]
List(parts) == [t |-> "list", v |-> <<>>, l |-> parts]
NaN == [t |-> "nan", v |-> <<>>, l |-> <<>>]
NaT == [t |-> "nat", v |-> <<>>, l |-> <<>>]

\* pandas.isna of a cell
IsNA(x) == x.t \in {"nan", "nat"}

(***************************************************************************)
(* Python str methods, on sequences of characters.                         *)
(***************************************************************************)
UpperChars ==
  <<"A","B","C","D","E","F","G","H","I","J","K","L","M",
    "N","O","P","Q","R","S","T","U","V","W","X","Y","Z">>
LowerChars ==
  <<"a","b","c","d","e","f","g","h","i","j","k","l","m",
    "n","o","p","q","r","s","t","u","v","w","x","y","z">>
DigitChars == <<"0","1","2","3","4","5","6","7","8","9">>

IsSpace(c) == c \in {" ", "\t", "\n", "\r"}
IsDigit(c) == \E i \in 1..Len(DigitChars) : DigitChars[i] = c
DigitVal(c) == (CHOOSE i \in 1..Len(DigitChars) : DigitChars[i] = c) - 1

LowerChar(c) ==
  IF \E i \in 1..Len(UpperChars) : UpperChars[i] = c
  THEN LowerChars[CHOOSE i \in 1..Len(UpperChars) : UpperChars[i] = c]
  ELSE c

\* str.lower()
Lower(s) == [i \in 1..Len(s) |-> LowerChar(s[i])]

\* str.startswith(p)
StartsWith(s, p) == Len(s) >= Len(p) /\ SubSeq(s, 1, Len(p)) = p

\* str.lstrip(), str.rstrip(), str.strip()
RECURSIVE LStrip(_)
LStrip(s) == IF s # <<>> /\ IsSpace(Head(s)) THEN LStrip(Tail(s)) ELSE s

RECURSIVE RStrip(_)
RStrip(s) ==
  IF s # <<>> /\ IsSpace(s[Len(s)]) THEN RStrip(SubSeq(s, 1, Len(s) - 1)) ELSE s

Strip(s) == RStrip(LStrip(s))

\* k in s
Contains(s, k) ==
  \E i \in 1..(Len(s) - Len(k) + 1) : SubSeq(s, i, i + Len(k) - 1) = k

\* str.split(sep), sep one character: the parts between the separators, in order
RECURSIVE SplitFrom(_, _, _)
SplitFrom(s, sep, part) ==
  IF s = <<>> THEN <<part>>
  ELSE IF Head(s) = sep THEN <<part>> \o SplitFrom(Tail(s), sep, <<>>)
  ELSE SplitFrom(Tail(s), sep, Append(part, Head(s)))

Split(s, sep) == SplitFrom(s, sep, <<>>)

RECURSIVE Concat(_)
Concat(ss) == IF ss = <<>> THEN <<>> ELSE Head(ss) \o Concat(Tail(ss))

\* repr of a list of str: ['a', 'b']
RECURSIVE ReprItems(_)
ReprItems(parts) ==
  IF parts = <<>> THEN <<>>
  ELSE <<"'">> \o Head(parts) \o <<"'">>
       \o (IF Len(parts) > 1 THEN <<",", " ">> ELSE <<>>)
       \o ReprItems(Tail(parts))

\* str(x), which Series.astype(str) applies to every element
ToStr(x) ==
  CASE x.t = "str" -> x.v
    [] x.t = "num" -> x.v
    [] x.t = "ts" -> x.v
    [] x.t = "nan" -> <<"n","a","n">>
    [] x.t = "nat" -> <<"N","a","T">>
    [] x.t = "list" -> <<"[">> \o ReprItems(x.l) \o <<"]">>

\* repr of a non-negative whole number as a float: 2 is 2.0
RECURSIVE NatDigits(_)
NatDigits(n) ==
  IF n < 10 THEN <<DigitChars[n + 1]>>
  ELSE Append(NatDigits(n \div 10), DigitChars[(n % 10) + 1])

Float(n) == Num(NatDigits(n) \o <<".", "0">>)

(***************************************************************************)
(* labeling_functions.py: the keyword classifier.                          *)
(***************************************************************************)
POSITIVE_KEYWORDS ==
  << <<"s","u","r","g","e">>,
     <<"o","p","t","i","m","i","s","m">>,
     <<"g","r","a","n","t","s">>,
     <<"e","x","p","a","n","d">>,
     <<"l","i","s","t","s">>,
     <<"r","e","a","c","h","e","s">>,
     <<"s","t","a","b","i","l","i","z","a","t","i","o","n">>,
     <<"b","r","e","a","k","o","u","t">>,
     <<"g","a","i","n">>,
     <<"g","r","o","w">>,
     <<"p","o","s","i","t","i","v","e">>,
     <<"s","u","p","p","o","r","t">> >>

NEGATIVE_KEYWORDS ==
  << <<"d","i","p">>,
     <<"u","n","c","e","r","t","a","i","n","t","y">>,
     <<"w","e","i","g","h","s">>,
     <<"d","e","l","a","y","s">>,
     <<"v","o","l","a","t","i","l","e">>,
     <<"c","o","n","c","e","r","n","s">>,
     <<"n","e","g","a","t","i","v","e">>,
     <<"c","o","r","r","e","c","t","i","o","n">>,
     <<"f","e","a","r">>,
     <<"d","r","o","p">>,
     <<"r","i","s","k">> >>

\* every occurrence of a keyword counts, not every keyword
RECURSIVE KeywordCount_PerOccurrence(_, _)
KeywordCount_PerOccurrence(keywords, text_lower) ==
  IF text_lower = <<>> THEN 0
  ELSE (IF \E i \in 1..Len(keywords) : StartsWith(text_lower, keywords[i])
        THEN 1 ELSE 0)
       + KeywordCount_PerOccurrence(keywords, Tail(text_lower))

\* sum(1 for keyword in keywords if keyword in text_lower)
RECURSIVE KeywordCount(_, _)
KeywordCount(keywords, text_lower) ==
  IF keywords = <<>> THEN 0
  ELSE (IF Contains(text_lower, Head(keywords)) THEN 1 ELSE 0)
       + KeywordCount(Tail(keywords), text_lower)

Positive == <<"P","o","s","i","t","i","v","e">>
Negative == <<"N","e","g","a","t","i","v","e">>
Neutral == <<"N","e","u","t","r","a","l">>

\* the returned pair; the score is the float of this whole number
Result(label, score) == [label |-> label, score |-> score]

\* the if / elif / else of label_sentiment_keywords
Decide(pos_count, neg_count) ==
  IF pos_count > neg_count THEN Result(Positive, pos_count)
  ELSE IF neg_count > pos_count THEN Result(Negative, neg_count)
  ELSE Result(Neutral, 0)

label_sentiment_keywords(text) ==
  IF text.t # "str" THEN Result(Neutral, 0)
  ELSE LET text_lower == Lower(text.v)
           pos_count == KeywordCount(POSITIVE_KEYWORDS, text_lower)
           neg_count == KeywordCount(NEGATIVE_KEYWORDS, text_lower)
       IN Decide(pos_count, neg_count)

(***************************************************************************)
(* Tables (pandas.DataFrame).                                              *)
(***************************************************************************)
ColSet(df) == {df.cols[i] : i \in 1..Len(df.cols)}
HasCol(df, c) == c \in ColSet(df)

\* df[c] = vals: the column is replaced, or appended as the last one
SetCol(df, c, vals, dt) ==
  [cols |-> IF HasCol(df, c) THEN df.cols ELSE Append(df.cols, c),
   dtype |-> [n \in ColSet(df) \cup {c} |-> IF n = c THEN dt ELSE df.dtype[n]],
   rows |-> [i \in 1..Len(df.rows) |->
               [key |-> df.rows[i].key,
                c |-> [n \in ColSet(df) \cup {c} |->
                         IF n = c THEN vals[i] ELSE df.rows[i].c[n]]]]]

\* the dtype the DataFrame constructor infers for a column
InferDtype(vals) ==
  IF Len(vals) > 0 /\ \A i \in 1..Len(vals) : vals[i].t \in {"num", "nan"}
  THEN "float64" ELSE "object"

\* pd.DataFrame({...}): the rows get the index labels 0, 1, ...
DataFrame(cols, cells) ==
  [cols |-> cols,
   dtype |-> [n \in {cols[i] : i \in 1..Len(cols)} |->
                InferDtype([i \in 1..Len(cells) |-> cells[i][n]])],
   rows |-> [i \in 1..Len(cells) |-> [key |-> i - 1, c |-> cells[i]]]]

\* df.copy(): a new table of the same columns, rows and values
Copy(df) == df

\* Series.str: pandas refuses the accessor on a column that is not of dtype
\* object, or whose non-missing values are all numbers or all timestamps
StrAccessorOK(df, c) ==
  LET present == {df.rows[i].c[c].t : i \in 1..Len(df.rows)} \ {"nan", "nat"}
  IN df.dtype[c] = "object" /\ present # {"num"} /\ present # {"ts"}

Dots == <<".", ".", ".">>

(***************************************************************************)
(* data_cleaning.py.                                                       *)
(***************************************************************************)
\* a row is a placeholder when "..." occurs anywhere in its first field
IsPlaceholder_Anywhere(df, row) == Contains(ToStr(row.c[df.cols[1]]), Dots)

\* df.iloc[:, 0].astype(str).str.startswith('...'), for one row
IsPlaceholder(df, row) == StartsWith(ToStr(row.c[df.cols[1]]), Dots)

\* df_cleaned[~mask]
DropPlaceholders(df) ==
  [df EXCEPT !.rows = SelectSeq(df.rows, LAMBDA row : ~IsPlaceholder(df, row))]

AllDigits(s) == \A i \in 1..Len(s) : IsDigit(s[i])

RECURSIVE DropLeadingZeros(_)
DropLeadingZeros(s) ==
  IF Len(s) > 1 /\ Head(s) = "0" THEN DropLeadingZeros(Tail(s)) ELSE s

RECURSIVE DropTrailingZeros(_)
DropTrailingZeros(s) ==
  IF Len(s) > 1 /\ s[Len(s)] = "0"
  THEN DropTrailingZeros(SubSeq(s, 1, Len(s) - 1)) ELSE s

\* the number a decimal literal denotes, as the repr of the float; NaN when
\* the text is no decimal literal
ParseFloat(s) ==
  LET body == Strip(s)
      neg == body # <<>> /\ Head(body) = "-"
      digits == IF neg THEN Tail(body) ELSE body
      parts == Split(digits, ".")
      ip == parts[1]
      fp == IF Len(parts) = 2 THEN parts[2] ELSE <<>>
      ok == /\ Len(parts) <= 2
            /\ AllDigits(ip) /\ AllDigits(fp)
            /\ (ip # <<>> \/ fp # <<>>)
  IN IF ok
     THEN Num((IF neg THEN <<"-">> ELSE <<>>)
              \o DropLeadingZeros(IF ip = <<>> THEN <<"0">> ELSE ip)
              \o <<".">>
              \o DropTrailingZeros(IF fp = <<>> THEN <<"0">> ELSE fp))
     ELSE NaN

\* errors='ignore': an unparsable cell is left as it is
to_numeric_ignore(x) ==
  CASE x.t = "str" -> IF ParseFloat(x.v).t = "num" THEN ParseFloat(x.v) ELSE x
    [] x.t = "num" -> x
    [] OTHER -> NaN

\* pd.to_numeric(..., errors='coerce'), for one cell
to_numeric(x) ==
  CASE x.t = "str" -> ParseFloat(x.v)
    [] x.t = "num" -> x
    [] OTHER -> NaN

\* int(s), s a sequence of digits
RECURSIVE Number(_)
Number(s) ==
  IF s = <<>> THEN 0
  ELSE 10 * Number(SubSeq(s, 1, Len(s) - 1)) + DigitVal(s[Len(s)])

DaysIn(year, month) ==
  IF month = 2
  THEN (IF (year % 4 = 0 /\ year % 100 # 0) \/ year % 400 = 0 THEN 29 ELSE 28)
  ELSE IF month \in {4, 6, 9, 11} THEN 30 ELSE 31

\* the instant an ISO date YYYY-MM-DD denotes; NaT when the text is no date
ParseDate(s) ==
  LET body == Strip(s)
      shape == /\ Len(body) = 10
               /\ body[5] = "-" /\ body[8] = "-"
               /\ \A i \in {1, 2, 3, 4, 6, 7, 9, 10} : IsDigit(body[i])
  IN IF shape
        /\ Number(SubSeq(body, 6, 7)) \in 1..12
        /\ Number(SubSeq(body, 9, 10)) \in
             1..DaysIn(Number(SubSeq(body, 1, 4)), Number(SubSeq(body, 6, 7)))
     THEN Ts(body) ELSE NaT

\* pd.to_datetime(..., errors='coerce'), for one cell; a number counts
\* nanoseconds from the epoch
to_datetime(x) ==
  CASE x.t = "str" -> ParseDate(x.v)
    [] x.t = "ts" -> x
    [] x.t = "num" -> Ts(<<"1","9","7","0","-","0","1","-","0","1">>)
    [] OTHER -> NaT

\* Series.astype(str), for one cell
AsStr(x) == Str(ToStr(x))

\* Series.fillna(''), for one cell
FillNaEmpty(x) == IF IsNA(x) THEN Str(<<>>) ELSE x

\* the methods of Series.str, for one cell: a missing value stays, any other
\* value that is not a str becomes NaN
StrSplit(x, sep) ==
  IF x.t = "str" THEN List(Split(x.v, sep)) ELSE IF IsNA(x) THEN x ELSE NaN

StrLower(x) == IF x.t = "str" THEN Str(Lower(x.v)) ELSE IF IsNA(x) THEN x ELSE NaN

StrStrip(x) == IF x.t = "str" THEN Str(Strip(x.v)) ELSE IF IsNA(x) THEN x ELSE NaN

\* the column c of df with every cell converted
NumericCol(df, c) == [i \in 1..Len(df.rows) |-> to_numeric(df.rows[i].c[c])]

DatetimeCol(df, c) == [i \in 1..Len(df.rows) |-> to_datetime(df.rows[i].c[c])]

\* what a call gives: the table it returns, or the exception it raises
Returns(df) == [err |-> "none", df |-> df]
Raises(e) == [err |-> e, df |-> DataFrame(<<>>, <<>>)]

\* lines 28-29: price, then volume
TradesNumeric(df) ==
  LET p == SetCol(df, "price", NumericCol(df, "price"), "float64")
  IN SetCol(p, "volume", NumericCol(p, "volume"), "float64")

Timestamps(df) ==
  SetCol(df, "timestamp", DatetimeCol(df, "timestamp"), "datetime64")

clean_trades(df) ==
  LET df_cleaned == DropPlaceholders(Copy(df))
  IN IF ~HasCol(df_cleaned, "timestamp") THEN Raises("KeyError")
     ELSE IF ~HasCol(df_cleaned, "price") \/ ~HasCol(df_cleaned, "volume")
     THEN Raises("KeyError")
     ELSE Returns(TradesNumeric(Timestamps(df_cleaned)))

TEXT_COLS == <<"headline", "summary", "source", "category">>

\* the loop of lines 65-67 over cols
RECURSIVE CleanText(_, _)
CleanText(df, cols) ==
  IF cols = <<>> THEN df
  ELSE LET col == Head(cols)
       IN CleanText(
            IF HasCol(df, col)
            THEN SetCol(df, col,
                        [i \in 1..Len(df.rows) |-> StrStrip(AsStr(df.rows[i].c[col]))],
                        "object")
            ELSE df,
            Tail(cols))

\* [symbol.strip() for symbol in x] if isinstance(x, list) else x
StripSymbols(x) ==
  IF x.t = "list" THEN List([i \in 1..Len(x.l) |-> Strip(x.l[i])]) ELSE x

\* lines 71-73, for one cell
SymbolsList(x) == StripSymbols(StrSplit(x, ";"))

clean_news(df) ==
  LET df_cleaned == DropPlaceholders(Copy(df))
  IN IF ~HasCol(df_cleaned, "timestamp") THEN Raises("KeyError")
     ELSE LET txt == CleanText(Timestamps(df_cleaned), TEXT_COLS)
          IN IF ~HasCol(txt, "related_symbols") THEN Returns(txt)
             ELSE IF ~StrAccessorOK(txt, "related_symbols")
             THEN Raises("AttributeError")
             ELSE Returns(SetCol(txt, "related_symbols_list",
                                 [i \in 1..Len(txt.rows) |->
                                    SymbolsList(txt.rows[i].c["related_symbols"])],
                                 "object"))

\* .str.lower().str.strip(), for one cell
LowerStrip(x) == StrStrip(StrLower(x))

clean_sentiment_labels(df) ==
  LET df_cleaned == DropPlaceholders(Copy(df))
  IN IF ~HasCol(df_cleaned, "timestamp") THEN Raises("KeyError")
     ELSE IF ~HasCol(df_cleaned, "confidence_score") THEN Raises("KeyError")
     ELSE LET ts == Timestamps(df_cleaned)
              num == SetCol(ts, "confidence_score",
                            NumericCol(ts, "confidence_score"), "float64")
          IN IF ~HasCol(num, "sentiment_label") THEN Returns(num)
             ELSE IF ~StrAccessorOK(num, "sentiment_label")
             THEN Raises("AttributeError")
             ELSE Returns(SetCol(num, "sentiment_label",
                                 [i \in 1..Len(num.rows) |->
                                    LowerStrip(num.rows[i].c["sentiment_label"])],
                                 "object"))

(***************************************************************************)
(* labeling_functions.py: the table-level operation.                       *)
(***************************************************************************)
\* the error branch labels every row Neutral before it returns
MissingColumn_Labeled(df, text_column) ==
  [reported |-> TRUE,
   df |-> SetCol(df, "auto_sentiment_label",
                 [i \in 1..Len(df.rows) |-> Str(Neutral)], "object")]

\* lines 39-41: the error is printed and df is returned
MissingColumn(df, text_column) == [reported |-> TRUE, df |-> df]

\* the results are attached in the order of the sorted texts, not of the rows
AttachResults_Reversed(df, sentiment_results) ==
  LET n == Len(df.rows)
      lab == SetCol(df, "auto_sentiment_label",
                    [i \in 1..n |-> Str(sentiment_results[n + 1 - i].label)],
                    "object")
  IN SetCol(lab, "auto_sentiment_score",
            [i \in 1..n |-> Float(sentiment_results[n + 1 - i].score)], "float64")

\* lines 47-48: the two lists are assigned by position
AttachResults(df, sentiment_results) ==
  LET lab == SetCol(df, "auto_sentiment_label",
                    [i \in 1..Len(df.rows) |-> Str(sentiment_results[i].label)],
                    "object")
  IN SetCol(lab, "auto_sentiment_score",
            [i \in 1..Len(df.rows) |-> Float(sentiment_results[i].score)],
            "float64")

\* the table df is after the call, and whether the error was printed; the
\* function works on df itself and returns it
apply_sentiment_to_news(df, text_column) ==
  IF ~HasCol(df, text_column) THEN MissingColumn(df, text_column)
  ELSE LET txt == SetCol(df, text_column,
                         [i \in 1..Len(df.rows) |->
                            FillNaEmpty(AsStr(df.rows[i].c[text_column]))],
                         "object")
           sentiment_results ==
             [i \in 1..Len(txt.rows) |->
                label_sentiment_keywords(txt.rows[i].c[text_column])]
       IN [reported |-> FALSE, df |-> AttachResults(txt, sentiment_results)]

(***************************************************************************)
(* The raw tables a caller passes in.                                      *)
(***************************************************************************)
GoodDate == <<"2","0","2","3","-","1","0","-","2","6">>
BadDate == <<"i","n","v","a","l","i","d">>

TradeCols == <<"timestamp", "symbol", "price", "volume">>
TradeRows ==
  { [timestamp |-> Str(GoodDate), symbol |-> Str(<<"B","T","C">>),
     price |-> Str(<<"3","4","5","0","0",".","5","0">>), volume |-> Str(<<"0",".","5">>)],
    [timestamp |-> Str(Dots), symbol |-> Str(<<"c","o","m","m","e","n","t">>),
     price |-> Str(<<"i","g","n","o","r","e">>), volume |-> Str(<<"t","h","i","s">>)],
    [timestamp |-> Str(BadDate), symbol |-> Str(<<"S","O","L">>),
     price |-> Str(<<"a","b","c">>), volume |-> Str(<<"1","5","0",".","5">>)],
    [timestamp |-> Str(GoodDate), symbol |-> Str(<<"E","T","H">>),
     price |-> Num(<<"7",".","0">>), volume |-> Str(<<"x">>)],
    [timestamp |-> NaN, symbol |-> NaN,
     price |-> Str(<<"a","b","c">>), volume |-> NaN] }

NewsCols == <<"id", "timestamp", "headline", "related_symbols">>
NewsRows ==
  { [id |-> Str(<<"N","1">>), timestamp |-> Str(GoodDate),
     headline |-> Str(<<" ","S","u","r","g","e"," ">>), related_symbols |-> Str(<<"B","T","C","-","U","S","D",";"," ","E","T","H","-","U","S","D">>)],
    [id |-> Str(Dots), timestamp |-> Str(<<"p","l","a","c","e","h","o","l","d","e","r">>),
     headline |-> Str(<<"c","o","m","m","e","n","t">>), related_symbols |-> Str(<<"r","o","w">>)],
    [id |-> Str(<<"N","3">>), timestamp |-> Str(GoodDate),
     headline |-> NaN, related_symbols |-> NaN],
    [id |-> Str(<<"N","4">>), timestamp |-> Str(BadDate),
     headline |-> Str(<<"D","i","p"," ","d","i","p">>), related_symbols |-> Num(<<"5",".","0">>)],
    [id |-> Str(<<" ",".",".",".","x">>), timestamp |-> Str(GoodDate),
     headline |-> Num(<<"7",".","0">>), related_symbols |-> Str(<<"S","O","L">>)] }

\* a news table whose first column is the headline
HeadlineCols == <<"headline", "timestamp", "source">>
HeadlineRows ==
  { [headline |-> Str(<<" ",".",".",".","x">>), timestamp |-> Str(GoodDate),
     source |-> Str(<<" ","A"," ">>)],
    [headline |-> Str(<<".",".",".","y">>), timestamp |-> Str(BadDate), source |-> NaN],
    [headline |-> Str(<<"G","a","i","n"," ","r","i","s","k">>), timestamp |-> Str(GoodDate),
     source |-> Str(<<"B">>)] }

LabelCols == <<"timestamp", "sentiment_label", "confidence_score">>
LabelRows ==
  { [timestamp |-> Str(GoodDate), sentiment_label |-> Str(<<" ","P","o","s","i","t","i","v","e"," ">>),
     confidence_score |-> Str(<<"0",".","9">>)],
    [timestamp |-> Str(<<".",".",".","z">>), sentiment_label |-> Str(<<"x">>),
     confidence_score |-> Str(<<"y">>)],
    [timestamp |-> Str(BadDate), sentiment_label |-> Str(<<"N","E","G","A","T","I","V","E">>),
     confidence_score |-> Str(<<"h","i","g","h">>)],
    [timestamp |-> Str(GoodDate), sentiment_label |-> Num(<<"5",".","0">>),
     confidence_score |-> Str(<<"1">>)],
    [timestamp |-> NaN, sentiment_label |-> NaN, confidence_score |-> NaN] }

\* a sentiment-labels table whose first column is the label
LabelFirstCols == <<"sentiment_label", "timestamp", "confidence_score">>
LabelFirstRows ==
  { [sentiment_label |-> Str(<<" ",".",".",".","P","o","s">>), timestamp |-> Str(GoodDate),
     confidence_score |-> Str(<<"0",".","5">>)],
    [sentiment_label |-> Str(<<"N","e","u","t","r","a","l"," ">>), timestamp |-> Str(BadDate),
     confidence_score |-> Str(<<"x">>)],
    [sentiment_label |-> Str(<<".",".",".","n">>), timestamp |-> NaN,
     confidence_score |-> Str(<<"2">>)] }

SeqsUpTo(S, n) == UNION {[1..k -> S] : k \in 0..n}

TablesOf(cols, rows) == {DataFrame(cols, cells) : cells \in SeqsUpTo(rows, MaxRows)}

RawTables ==
  TablesOf(TradeCols, TradeRows) \cup TablesOf(NewsCols, NewsRows)
  \cup TablesOf(HeadlineCols, HeadlineRows) \cup TablesOf(LabelCols, LabelRows)
  \cup TablesOf(LabelFirstCols, LabelFirstRows)

\* the text_column arguments of apply_sentiment_to_news; no raw table has a
\* summary column
TextColumnArgs == {"headline", "summary"}

(***************************************************************************)
(* The caller: it builds a raw table, then chains calls, each on the table *)
(* the previous call returned.  An exception ends the run.                 *)
(***************************************************************************)
NoResult == Result(<<>>, 0)
NoTable == DataFrame(<<>>, <<>>)

Init ==
  /\ heap \in {<<raw>> : raw \in RawTables}
  /\ cur = 1
  /\ calls = 0
  /\ lastOp = "none" /\ prevOp = "none"
  /\ argId = 0 /\ retId = 0
  /\ before = NoTable
  /\ raised = "none"
  /\ reported = FALSE
  /\ textCol = "none"
  /\ lblIn = NaN /\ lblOut = NoResult

CanCall == calls < MaxCalls /\ raised = "none"

\* a call of a cleaning function: res is what it gives for heap[cur]; the
\* table it returns is a new object
CleanCall(op, res) ==
  /\ CanCall
  /\ calls' = calls + 1
  /\ prevOp' = lastOp /\ lastOp' = op
  /\ argId' = cur /\ before' = heap[cur]
  /\ raised' = res.err
  /\ reported' = FALSE /\ textCol' = "none"
  /\ IF res.err = "none"
     THEN heap' = Append(heap, res.df) /\ retId' = Len(heap) + 1
          /\ cur' = Len(heap) + 1
     ELSE heap' = heap /\ retId' = 0 /\ cur' = cur
  /\ UNCHANGED <<lblIn, lblOut>>

CallCleanTrades == CleanCall("clean_trades", clean_trades(heap[cur]))

CallCleanNews == CleanCall("clean_news", clean_news(heap[cur]))

CallCleanSentimentLabels ==
  CleanCall("clean_sentiment_labels", clean_sentiment_labels(heap[cur]))

\* a call of apply_sentiment_to_news: it writes into the table object it was
\* given and returns that object
CallApplySentiment ==
  \E text_column \in TextColumnArgs :
    LET res == apply_sentiment_to_news(heap[cur], text_column)
    IN /\ CanCall
       /\ calls' = calls + 1
       /\ prevOp' = lastOp /\ lastOp' = "apply_sentiment_to_news"
       /\ argId' = cur /\ before' = heap[cur]
       /\ raised' = "none"
       /\ reported' = res.reported /\ textCol' = text_column
       /\ heap' = [heap EXCEPT ![cur] = res.df]
       /\ retId' = cur /\ cur' = cur
       /\ UNCHANGED <<lblIn, lblOut>>

Next ==
  \/ CallCleanTrades
  \/ CallCleanNews
  \/ CallCleanSentimentLabels
  \/ CallApplySentiment

Spec == Init /\ [][Next]_vars

(***************************************************************************)
(* The classifier alone: the caller hands label_sentiment_keywords one     *)
(* value.                                                                  *)
(***************************************************************************)
Fragments ==
  { <<"S","u","r","g","e">>, <<"s","u","r">>, <<"g","e">>, <<"O","p","t","i","m","i","s","m">>, <<"d","i","p">>, <<"F","E","A","R">>,
    <<" ">>, <<"g","a","i","n">> }

ExampleHeadlines ==
  { <<"B","i","t","c","o","i","n"," ","S","u","r","g","e","s"," ","P","a","s","t"," ","$","3","4",",","0","0","0"," ","A","m","i","d"," ","S","p","o","t"," ","E","T","F"," ","O","p","t","i","m","i","s","m">>,
    <<"E","t","h","e","r","e","u","m"," ","S","t","a","k","i","n","g"," ","R","e","w","a","r","d","s"," ","S","e","e"," ","S","l","i","g","h","t"," ","D","i","p">>,
    <<"S","o","l","a","n","a"," ","E","c","o","s","y","s","t","e","m"," ","F","u","n","d"," ","A","n","n","o","u","n","c","e","s"," ","N","e","w"," ","G","r","a","n","t","s"," ","f","o","r"," ","D","e","F","i"," ","P","r","o","j","e","c","t","s">>,
    <<"R","e","g","u","l","a","t","o","r","y"," ","U","n","c","e","r","t","a","i","n","t","y"," ","W","e","i","g","h","s"," ","o","n"," ","C","a","r","d","a","n","o"," ","D","e","v","e","l","o","p","m","e","n","t">> }

Texts ==
  {Concat(frags) : frags \in SeqsUpTo(Fragments, MaxFrags)} \cup ExampleHeadlines

ClassifierInputs ==
  {Str(text) : text \in Texts}
  \cup {NaN, NaT, Num(<<"3",".","0">>), List(<<<<"s","u","r","g","e">>>>)}

InitLabel ==
  /\ heap = <<>>
  /\ cur = 0
  /\ calls = 0
  /\ lastOp = "none" /\ prevOp = "none"
  /\ argId = 0 /\ retId = 0
  /\ before = NoTable
  /\ raised = "none"
  /\ reported = FALSE
  /\ textCol = "none"
  /\ lblIn \in ClassifierInputs
  /\ lblOut = NoResult

Classify ==
  /\ lblOut = NoResult
  /\ lblOut' = label_sentiment_keywords(lblIn)
  /\ UNCHANGED <<heap, cur, calls, lastOp, prevOp, argId, retId, before, raised,
                 reported, textCol, lblIn>>

NextLabel == Classify

SpecLabel == InitLabel /\ [][NextLabel]_vars

(***************************************************************************)
(* Properties.                                                             *)
(***************************************************************************)
Cleaners == {"clean_trades", "clean_news", "clean_sentiment_labels"}

\* the last call was op and it returned
Returned(op) == lastOp = op /\ raised = "none"

\* the table the last call returned
Out == heap[retId]

\* the positions of the rows of df whose first field, as a string, starts
\* with "..."
Marked(df) ==
  {i \in 1..Len(df.rows) :
     LET s == ToStr(df.rows[i].c[df.cols[1]])
     IN Len(s) >= 3 /\ s[1] = "." /\ s[2] = "." /\ s[3] = "."}

KeysOf(df, positions) == {df.rows[i].key : i \in positions}

\* the row of df with index label k
RowOf(df, k) == df.rows[CHOOSE i \in 1..Len(df.rows) : df.rows[i].key = k]

\* C1: after clean_trades, clean_news or clean_sentiment_labels returns, the
\* rows of the output are exactly the rows of the input whose original first
\* field does not start with "...", each under its original key, so the
\* output has as many rows as the input less the placeholder rows.
C1_PlaceholderRowsDropped ==
  (lastOp \in Cleaners /\ raised = "none") =>
    /\ KeysOf(Out, 1..Len(Out.rows))
         = KeysOf(before, (1..Len(before.rows)) \ Marked(before))
    /\ Len(Out.rows) = Len(before.rows) - Cardinality(Marked(before))

\* a placeholder row was dropped, another row was kept, and a row whose first
\* field only contains "..." further on was kept too
C1_Witness ==
  /\ lastOp \in Cleaners /\ raised = "none"
  /\ Marked(before) # {}
  /\ \E i \in 1..Len(before.rows) :
       /\ i \notin Marked(before)
       /\ Contains(ToStr(before.rows[i].c[before.cols[1]]), Dots)
       /\ before.rows[i].key \in KeysOf(Out, 1..Len(Out.rows))

\* the fields a cleaning function coerces to numbers
NumericFields(op) ==
  IF op = "clean_trades" THEN {"price", "volume"} ELSE {"confidence_score"}

\* what a coerced field must hold, from the field's own input alone
Coerced(kind, x) ==
  IF kind = "number"
  THEN (IF x.t = "num" THEN x
        ELSE IF x.t = "str" /\ ParseFloat(x.v).t = "num" THEN ParseFloat(x.v)
        ELSE NaN)
  ELSE (IF x.t = "ts" THEN x
        ELSE IF x.t = "str" /\ ParseDate(x.v).t = "ts" THEN ParseDate(x.v)
        ELSE NaT)

\* C2: in clean_trades and clean_sentiment_labels no cell of a coerced field
\* makes the call raise (the call raises only for a missing required column
\* or, in clean_sentiment_labels, for a sentiment_label column holding no
\* string); every non-placeholder row is kept; each coerced field holds the
\* parsed value of its own input, or the missing marker when that input is
\* unparsable, whatever the other fields hold; sentiment_label holds the
\* normalization of its own input and every other field is unchanged.
C2_CoercionIsTotalPerField ==
  (lastOp \in {"clean_trades", "clean_sentiment_labels"}) =>
    LET required == {"timestamp"} \cup NumericFields(lastOp)
        kept == (1..Len(before.rows)) \ Marked(before)
    IN /\ raised # "none" =>
            \/ ~(required \subseteq ColSet(before))
            \/ /\ lastOp = "clean_sentiment_labels"
               /\ HasCol(before, "sentiment_label")
               /\ \A i \in kept : before.rows[i].c["sentiment_label"].t # "str"
       /\ raised = "none" =>
            \A i \in kept :
              /\ before.rows[i].key \in KeysOf(Out, 1..Len(Out.rows))
              /\ LET row == RowOf(Out, before.rows[i].key)
                     old == before.rows[i]
                 IN \A f \in ColSet(before) :
                      IF f = "timestamp" THEN row.c[f] = Coerced("instant", old.c[f])
                      ELSE IF f \in NumericFields(lastOp)
                      THEN row.c[f] = Coerced("number", old.c[f])
                      ELSE IF f = "sentiment_label" /\ lastOp = "clean_sentiment_labels"
                      THEN row.c[f] = LowerStrip(old.c[f])
                      ELSE row.c[f] = old.c[f]

\* price "abc" became the missing marker and volume "150.5" became 150.5 in
\* the same retained row, whose timestamp was unparsable too
C2_Witness ==
  /\ Returned("clean_trades")
  /\ \E i \in 1..Len(before.rows) :
       /\ before.rows[i].c["price"] = Str(<<"a","b","c">>)
       /\ before.rows[i].c["volume"] = Str(<<"1","5","0",".","5">>)
       /\ before.rows[i].key \in KeysOf(Out, 1..Len(Out.rows))
       /\ RowOf(Out, before.rows[i].key).c["price"] = NaN
       /\ RowOf(Out, before.rows[i].key).c["volume"] = Num(<<"1","5","0",".","5">>)
       /\ RowOf(Out, before.rows[i].key).c["timestamp"] = NaT

\* C3: a cleaning function run on its own output returns a table with the
\* same rows and the same cell values.
C3_Idempotent ==
  (lastOp \in Cleaners /\ prevOp = lastOp /\ raised = "none") =>
    /\ Out.cols = before.cols
    /\ Out.rows = before.rows

\* C5: after a call the table object that was passed in holds what it held
\* before the call, and a labeled result is another object.
C5_InputNotMutated ==
  (lastOp # "none" /\ raised = "none") =>
    /\ heap[argId].cols = before.cols
    /\ heap[argId].rows = before.rows
    /\ (lastOp = "apply_sentiment_to_news" /\ HasCol(before, textCol)) =>
         retId # argId

\* C6: apply_sentiment_to_news with a text_column the table does not have
\* does not raise, reports the error and returns the table it was given,
\* with the columns, rows and values it had.
C6_MissingColumnReturnsInput ==
  (lastOp = "apply_sentiment_to_news" /\ ~HasCol(before, textCol)) =>
    /\ raised = "none"
    /\ reported
    /\ retId = argId
    /\ Out.cols = before.cols
    /\ Out.rows = before.rows

\* a table with rows was labeled against a column it does not have
C6_Witness ==
  /\ lastOp = "apply_sentiment_to_news"
  /\ ~HasCol(before, textCol)
  /\ Len(before.rows) > 0
  /\ reported

\* C7: in the output of clean_news, related_symbols_list holds the trimmed
\* parts of a string related_symbols, and the original value of any
\* related_symbols that is not a string.
C7_SymbolsListDerived ==
  (Returned("clean_news") /\ HasCol(before, "related_symbols")) =>
    \A i \in 1..Len(Out.rows) :
      LET x == RowOf(before, Out.rows[i].key).c["related_symbols"]
          y == Out.rows[i].c["related_symbols_list"]
      IN IF x.t = "str"
         THEN y = List([k \in 1..Len(Split(x.v, ";")) |-> Strip(Split(x.v, ";")[k])])
         ELSE y = x

\* C8: a missing value in the text column is classified as the empty
\* string: the column holds "" for that row, labeled Neutral with score 0.
C8_MissingTextIsEmpty ==
  (Returned("apply_sentiment_to_news") /\ HasCol(before, textCol)) =>
    \A i \in 1..Len(before.rows) :
      IsNA(before.rows[i].c[textCol]) =>
        /\ Out.rows[i].c[textCol] = Str(<<>>)
        /\ Out.rows[i].c["auto_sentiment_label"] = Str(Neutral)
        /\ Out.rows[i].c["auto_sentiment_score"] = Float(0)

\* C9: clean_news replaces headline, summary, source and category, and
\* clean_sentiment_labels replaces sentiment_label (lower-cased), by the
\* trimmed string form of the input value, whatever its type.
C9_TextNormalized ==
  /\ Returned("clean_news") =>
       \A i \in 1..Len(Out.rows) : \A n \in 1..Len(TEXT_COLS) :
         HasCol(before, TEXT_COLS[n]) =>
           Out.rows[i].c[TEXT_COLS[n]]
             = Str(Strip(ToStr(RowOf(before, Out.rows[i].key).c[TEXT_COLS[n]])))
  /\ (/\ lastOp = "clean_sentiment_labels"
      /\ HasCol(before, "sentiment_label")
      /\ {"timestamp", "confidence_score"} \subseteq ColSet(before)) =>
         /\ raised = "none"
         /\ \A i \in 1..Len(Out.rows) :
              Out.rows[i].c["sentiment_label"]
                = Str(Strip(Lower(ToStr(
                    RowOf(before, Out.rows[i].key).c["sentiment_label"]))))

\* C10: the label and the score apply_sentiment_to_news gives a row are those
\* of the classifier on the string form of that row's own text, so rows of
\* equal text get equal results wherever they stand and whatever the other
\* rows hold.
C10_LabelFromOwnText ==
  (Returned("apply_sentiment_to_news") /\ HasCol(before, textCol)) =>
    /\ Len(Out.rows) = Len(before.rows)
    /\ \A i \in 1..Len(before.rows) :
         LET own == label_sentiment_keywords(Str(ToStr(before.rows[i].c[textCol])))
         IN /\ Out.rows[i].key = before.rows[i].key
            /\ Out.rows[i].c["auto_sentiment_label"] = Str(own.label)
            /\ Out.rows[i].c["auto_sentiment_score"] = Float(own.score)

\* a table of a Positive row followed by a Negative row was labeled
C10_Witness ==
  /\ Returned("apply_sentiment_to_news") /\ HasCol(before, textCol)
  /\ Len(Out.rows) >= 2
  /\ Out.rows[1].c["auto_sentiment_label"] = Str(Positive)
  /\ Out.rows[2].c["auto_sentiment_label"] = Str(Negative)

\* the keywords of a list that occur in the lower-cased text
Found(keywords, text) ==
  {k \in {keywords[i] : i \in 1..Len(keywords)} : Contains(Lower(text), k)}

\* C4: label_sentiment_keywords gives Positive with the number of distinct
\* positive markers found when that exceeds the number of distinct negative
\* markers found, Negative with the number of negative markers when that is
\* the larger, and Neutral with 0 on a tie; a value that is not a string
\* gives Neutral with 0.
C4_ClassificationRule ==
  lblOut # NoResult =>
    IF lblIn.t # "str" THEN lblOut = Result(Neutral, 0)
    ELSE LET p == Cardinality(Found(POSITIVE_KEYWORDS, lblIn.v))
             n == Cardinality(Found(NEGATIVE_KEYWORDS, lblIn.v))
         IN /\ p > n => lblOut = Result(Positive, p)
            /\ n > p => lblOut = Result(Negative, n)
            /\ p = n => lblOut = Result(Neutral, 0)

\* a text in which one negative marker occurs twice and one positive marker
\* once was classified: a tie of distinct markers
C4_Witness ==
  /\ lblOut = Result(Neutral, 0)
  /\ lblIn.t = "str"
  /\ Found(POSITIVE_KEYWORDS, lblIn.v) = {<<"g","a","i","n">>}
  /\ Found(NEGATIVE_KEYWORDS, lblIn.v) = {<<"d","i","p">>}
  /\ \E i, j \in 1..Len(lblIn.v) :
       /\ i < j
       /\ StartsWith(SubSeq(Lower(lblIn.v), i, Len(lblIn.v)), <<"d","i","p">>)
       /\ StartsWith(SubSeq(Lower(lblIn.v), j, Len(lblIn.v)), <<"d","i","p">>)

====
